---- MODULE Spec2Model ----
(***************************************************************************)
(* Channel coding engine of the audio-processing repository                *)
(* (src/effects/channel_code.py): Hamming(7,4) block code, CRC-32 frame    *)
(* check, 16-bit quantisation and the process() methods built on them;     *)
(* and the parameters of FSKEffect (src/effects/fsk.py).                   *)
(*                                                                         *)
(* Each specification uses the variables of its part and leaves the others *)
(* idle: hb a Hamming block or stream, cr a CRC frame, bc the quantiser,   *)
(* call a call of process, fx a constructed effect, sg a stage called on   *)
(* its own, sd a call over a seeded random source.                         *)
(*                                                                         *)
(* Bits are the integers 0 and 1.  A numpy 1-D array or a Python list is a *)
(* sequence.  A float sample is the exact rational num/den, written        *)
(* [num |-> n, den |-> d]; on the grids used here every float32 operation  *)
(* of the source is exact or rounds without crossing an integer, so the    *)
(* rational arithmetic below is what the source computes.                  *)
(***************************************************************************)
EXTENDS Integers, Sequences, FiniteSets, TLC

VARIABLES hb, cr, bc, call, fx, sg, sd

vars == <<hb, cr, bc, call, fx, sg, sd>>

Idle == [pc |-> "idle"]

(***************************************************************************)
(* Bounds of the model.                                                    *)
(***************************************************************************)
\* most calls of set_params on one FSKEffect (parameter specification)
MaxCalls == 2

\* longest bit array given to a stage whose result is examined for aliasing
\* (ownership specification); a frame has 32 bits more
MaxOwnedLen == 3

\* most bits the random channel flips in the frame of the one-sample buffer
\* (checksum specification)
MaxTailFlips == 1

\* most bits the random channel flips during one call of process on a
\* one-sample buffer (noisy-call specification)
MaxSpreadFlips == 2

\* longest bitstream given to the stream encoders (stream specification)
MaxStreamLen == 8

\* most samples of an integer array turned into words (word specification)
MaxWords == 2

\* most bits the channel flips inside one 7-bit block (block specification)
MaxBlockFlips == 7
\* longest bit list handed to _hamming_7_4_encode (block specification)
MaxGroupLen == 5
\* longest CRC payload, in bits (CRC specification)
MaxPayload == 5
\* longest received stream that is no whole frame (check specification)
MaxShortLen == 6
\* most bits the channel flips inside one CRC frame (CRC specification)
MaxFrameFlips == 1
\* input samples of the quantiser are the float32 values n/SampleDen,
\* |n| <= MaxSample
SampleDen == 65536
MaxSample == 65536
\* most channels and most samples per channel of a buffer given to process
MaxChannels == 2
MaxLen == 1
\* most bits the random channel flips during one call of process when
\* 0 < error_rate < 1
MaxFlips == 1

(***************************************************************************)
(* Bit helpers.                                                            *)
(***************************************************************************)
Bit == {0, 1}

\* Python's ^ on two bits
Xor(a, b) == (a + b) % 2

\* a function on 1..n as the list of its values
AsList(f) == SubSeq(f, 1, Len(f))

\* all bit sequences of length n
BitSeqs(n) == [1..n -> Bit]

\* bits with the positions of the set flips inverted: (bits + noise) % 2 with
\* noise[i] = 1 exactly for i in flips
FlipAt(bits, flips) ==
    AsList([i \in 1..Len(bits) |->
               IF i \in flips THEN (bits[i] + 1) % 2 ELSE bits[i]])

RECURSIVE SubsetsUpTo(_, _)
\* the subsets of S with at most k elements
SubsetsUpTo(S, k) ==
    IF k = 0 THEN {{}}
    ELSE LET P == SubsetsUpTo(S, k - 1)
         IN  P \cup {F \cup {x} : F \in P, x \in S}

\* np.pad(bits, (0, pad_len), 'constant')
PadZeros(bits, pad_len) == bits \o AsList([i \in 1..pad_len |-> 0])

\* Python slice seq[:n] for n >= 0
Take(seq, n) == SubSeq(seq, 1, IF n < Len(seq) THEN n ELSE Len(seq))

RECURSIVE Flatten(_)
\* concatenation of a sequence of sequences (list.extend in a loop), folded
\* by halves
Flatten(ss) ==
    IF Len(ss) = 0 THEN <<>>
    ELSE IF Len(ss) = 1 THEN AsList(ss[1])
    ELSE LET h == Len(ss) \div 2
         IN  Flatten(SubSeq(ss, 1, h)) \o Flatten(SubSeq(ss, h + 1, Len(ss)))

(***************************************************************************)
(* HammingCodeEffect: the (7,4) block code.                                *)
(***************************************************************************)
_hamming_7_4_encode_systematic(data_bits) ==
    LET d1 == data_bits[1]
        d2 == data_bits[2]
        d3 == data_bits[3]
        d4 == data_bits[4]
    IN  <<d1, d2, d3, d4, (d1 + d2 + d4) % 2, (d1 + d3 + d4) % 2,
          (d2 + d3 + d4) % 2>>

_hamming_7_4_encode_p1(data_bits) ==
    LET d1 == data_bits[1]
        d2 == data_bits[2]
        d3 == data_bits[3]
        d4 == data_bits[4]
        p1 == Xor(Xor(d1, d2), d3)
        p2 == Xor(Xor(d1, d3), d4)
        p3 == Xor(Xor(d2, d3), d4)
    IN  <<p1, p2, d1, p3, d2, d3, d4>>

\* _hamming_7_4_encode for a 4-bit list
_hamming_7_4_encode(data_bits) ==
    LET d1 == data_bits[1]
        d2 == data_bits[2]
        d3 == data_bits[3]
        d4 == data_bits[4]
        p1 == Xor(Xor(d1, d2), d4)
        p2 == Xor(Xor(d1, d3), d4)
        p3 == Xor(Xor(d2, d3), d4)
    IN  <<p1, p2, d1, p3, d2, d3, d4>>

\* the three syndromes of a 7-bit list, <<s1, s2, s3>>
syndrome(bits) ==
    LET p1 == bits[1]
        p2 == bits[2]
        d1 == bits[3]
        p3 == bits[4]
        d2 == bits[5]
        d3 == bits[6]
        d4 == bits[7]
    IN  << Xor(Xor(Xor(p1, d1), d2), d4),
           Xor(Xor(Xor(p2, d1), d3), d4),
           Xor(Xor(Xor(p3, d2), d3), d4) >>

error_pos_swapped(bits) ==
    LET s == syndrome(bits) IN s[1] * 4 + s[2] * 2 + s[3] * 1

\* error_pos = s3 * 4 + s2 * 2 + s1 * 1
error_pos(bits) ==
    LET s == syndrome(bits) IN s[3] * 4 + s[2] * 2 + s[1] * 1

_hamming_7_4_decode_nofix(coded_bits) ==
    <<coded_bits[3], coded_bits[5], coded_bits[6], coded_bits[7]>>

_hamming_7_4_decode_all(coded_bits) ==
    LET pos == error_pos(coded_bits)
    IN  IF pos # 0 /\ pos <= 7
        THEN [coded_bits EXCEPT ![pos] = 1 - coded_bits[pos]]
        ELSE coded_bits

\* _hamming_7_4_decode for a 7-bit list: correct the located bit on a copy,
\* return [d1, d2, d3, d4]
_hamming_7_4_decode(coded_bits) ==
    LET pos == error_pos(coded_bits)
        bits == IF pos # 0 /\ pos <= 7
                THEN [coded_bits EXCEPT ![pos] = 1 - coded_bits[pos]]
                ELSE coded_bits
    IN  <<bits[3], bits[5], bits[6], bits[7]>>

(***************************************************************************)
(* Block specification: one 4-bit group is encoded, sent through a channel *)
(* that flips a set of positions, and decoded.                             *)
(***************************************************************************)
InitBlock ==
    /\ \E n \in 0..MaxGroupLen : \E d \in BitSeqs(n) :
          hb = [pc |-> "start", data_bits |-> d, coded |-> <<>>, flips |-> {},
                received |-> <<>>, error_pos |-> 0, decoded |-> <<>>]
    /\ cr = Idle
    /\ bc = Idle
    /\ call = Idle
    /\ fx = Idle
    /\ sg = Idle
    /\ sd = Idle

\* the call of _hamming_7_4_encode: ValueError unless len(data_bits) is 4
BlockEncode ==
    /\ hb.pc = "start"
    /\ hb' = IF Len(hb.data_bits) # 4
             THEN [hb EXCEPT !.pc = "raised"]
             ELSE [hb EXCEPT !.pc = "coded",
                             !.coded = _hamming_7_4_encode(hb.data_bits)]
    /\ UNCHANGED <<cr, bc, call, fx, sg, sd>>

BlockChannel ==
    /\ hb.pc = "coded"
    /\ \E F \in SubsetsUpTo(1..7, MaxBlockFlips) :
          hb' = [hb EXCEPT !.pc = "received", !.flips = F,
                           !.received = FlipAt(hb.coded, F)]
    /\ UNCHANGED <<cr, bc, call, fx, sg, sd>>

BlockDecode ==
    /\ hb.pc = "received"
    /\ hb' = [hb EXCEPT !.pc = "decoded",
                        !.error_pos = error_pos(hb.received),
                        !.decoded = _hamming_7_4_decode(hb.received)]
    /\ UNCHANGED <<cr, bc, call, fx, sg, sd>>

NextBlock == BlockEncode \/ BlockChannel \/ BlockDecode

SpecBlock == InitBlock /\ [][NextBlock]_vars

\* C1: every 4-bit group survives the flip of any single bit of its codeword:
\* decoding the codeword with exactly one position inverted returns the group.
C1_SingleErrorCorrected ==
    (hb.pc = "decoded" /\ Cardinality(hb.flips) = 1) => hb.decoded = hb.data_bits

C1_Witness ==
    /\ hb.pc = "decoded"
    /\ hb.flips = {3}
    /\ hb.data_bits = <<1, 0, 1, 1>>
    /\ hb.received = <<0, 1, 0, 0, 0, 1, 1>>
    /\ hb.decoded = <<1, 0, 1, 1>>

\* C2: with no bit flipped every 4-bit group decodes to itself and the decoder
\* locates no error (error_pos = 0, so it flips nothing).
C2_CleanRoundTrip ==
    (hb.pc = "decoded" /\ hb.flips = {}) =>
        (hb.decoded = hb.data_bits /\ hb.error_pos = 0)

C2_Witness ==
    /\ hb.pc = "decoded"
    /\ hb.flips = {}
    /\ hb.received = <<0, 1, 1, 0, 0, 1, 1>>
    /\ hb.decoded = <<1, 0, 1, 1>>
    /\ hb.error_pos = 0

\* C16: _hamming_7_4_encode raises ValueError exactly for the lists whose
\* length is not 4, and returns for (d1, d2, d3, d4) the 7 bits
\* [p1, p2, d1, p3, d2, d3, d4] with p1 = d1 xor d2 xor d4,
\* p2 = d1 xor d3 xor d4 and p3 = d2 xor d3 xor d4.
C16_EncodeFormula ==
    /\ hb.pc \in {"start", "raised", "coded", "received", "decoded"}
    /\ (hb.pc = "raised") => Len(hb.data_bits) # 4
    /\ (hb.pc \in {"coded", "received", "decoded"}) =>
          /\ Len(hb.data_bits) = 4
          /\ LET d == hb.data_bits
             IN  hb.coded = << (d[1] + d[2] + d[4]) % 2,
                               (d[1] + d[3] + d[4]) % 2,
                               d[1],
                               (d[2] + d[3] + d[4]) % 2,
                               d[2], d[3], d[4] >>

C16_Witness ==
    /\ hb.pc = "coded"
    /\ hb.data_bits = <<1, 0, 1, 1>>
    /\ hb.coded = <<0, 1, 1, 0, 0, 1, 1>>

C16_WitnessRaised ==
    /\ hb.pc = "raised"
    /\ hb.data_bits = <<1, 0, 1>>

\* C17: _hamming_7_4_decode returns, for every 7-bit word it is given
\* (codewords with any number of flipped bits), exactly 4 bits, each 0 or 1,
\* and the error position it computes lies in 0..7.
C17_DecodeTotal ==
    (hb.pc = "decoded") =>
        /\ Len(hb.received) = 7
        /\ Len(hb.decoded) = 4
        /\ \A k \in 1..Len(hb.decoded) : hb.decoded[k] \in Bit
        /\ hb.error_pos \in 0..7

\* two flipped bits: the decoder "corrects" a third position
C17_Witness ==
    /\ hb.pc = "decoded"
    /\ hb.data_bits = <<1, 0, 1, 1>>
    /\ hb.flips = {1, 2}
    /\ hb.received = <<1, 0, 1, 0, 0, 1, 1>>
    /\ hb.error_pos = 3
    /\ hb.decoded = <<0, 0, 1, 1>>

\* C18: whenever the channel flipped 2 or more of the 7 bits of a codeword,
\* the decoded group differs from the group that was encoded.
C18_MultiErrorNeverCorrect ==
    (hb.pc = "decoded" /\ Cardinality(hb.flips) >= 2) =>
        hb.decoded # hb.data_bits

\* all 7 bits flipped: the received word is the complementary codeword
C18_Witness ==
    /\ hb.pc = "decoded"
    /\ hb.data_bits = <<1, 0, 1, 1>>
    /\ hb.flips = 1..7
    /\ hb.error_pos = 0
    /\ hb.decoded = <<0, 1, 0, 0>>

(***************************************************************************)
(* CRC32Effect: the CRC-32 frame check.  The 32-bit register crc is kept   *)
(* as the set of its bit positions that hold 1 (position 0 is crc & 1), so *)
(* that ^ is the symmetric difference and >> 1 lowers every position.      *)
(***************************************************************************)
\* the 32-bit word of an 8-digit hexadecimal constant
Word32(hex) ==
    {p \in 0..31 : (hex[8 - (p \div 4)] \div (2 ^ (p % 4))) % 2 = 1}

\* self.polynomial = 0xEDB88320
polynomial == Word32(<<14, 13, 11, 8, 8, 3, 2, 0>>)

\* 0xFFFFFFFF
AllOnes32 == Word32(<<15, 15, 15, 15, 15, 15, 15, 15>>)

\* a ^ b on 32-bit words
Xor32(a, b) == (a \ b) \cup (b \ a)

\* crc >> 1
ShiftRight1(crc) == {i - 1 : i \in crc \ {0}}

crc_step_noxor(crc, bit) == ShiftRight1(crc)

\* one turn of the loop:
\* crc = (crc >> 1) ^ self.polynomial if ((crc ^ bit_int) & 1) else crc >> 1
crc_step(crc, bit) ==
    IF Xor(IF 0 \in crc THEN 1 ELSE 0, bit) = 1
    THEN Xor32(ShiftRight1(crc), polynomial)
    ELSE ShiftRight1(crc)

RECURSIVE crc_loop(_, _)
\* the register after the loop over data_bits, started from crc (the loop is
\* folded by halves: first half, then second half from the 32-bit register
\* the first half left)
crc_loop(crc, data_bits) ==
    IF Len(data_bits) = 0 THEN crc
    ELSE IF Len(data_bits) = 1 THEN crc_step(crc, data_bits[1])
    ELSE LET h == Len(data_bits) \div 2
             mid == crc_loop(crc, SubSeq(data_bits, 1, h))
         IN  CASE mid \subseteq 0..31 ->
                    crc_loop(mid, SubSeq(data_bits, h + 1, Len(data_bits)))

crc32_bits_nofinal(data_bits) ==
    LET crc == crc_loop(AllOnes32, data_bits)
    IN  AsList([k \in 1..32 |-> IF (32 - k) \in crc THEN 1 ELSE 0])

\* crc = 0xFFFFFFFF; the loop; crc ^= 0xFFFFFFFF; then the list
\* [(crc >> i) & 1 for i in range(31, -1, -1)], most significant bit first
crc32_bits(data_bits) ==
    LET crc == Xor32(crc_loop(AllOnes32, data_bits), AllOnes32)
    IN  AsList([k \in 1..32 |-> IF (32 - k) \in crc THEN 1 ELSE 0])

_crc32_encode_lsb_first(data_bits) ==
    data_bits \o AsList([i \in 1..32 |-> crc32_bits(data_bits)[33 - i]])

\* _crc32_encode: np.concatenate([data_bits, crc_bits])
_crc32_encode(data_bits) == data_bits \o crc32_bits(data_bits)

\* self.crc_length = 32
crc_length == 32

_crc32_check_drop(coded_bits) ==
    IF Len(coded_bits) < crc_length
    THEN [is_valid |-> FALSE, data_bits |-> coded_bits]
    ELSE LET data_bits == SubSeq(coded_bits, 1, Len(coded_bits) - crc_length)
             crc_bits == SubSeq(coded_bits, Len(coded_bits) - crc_length + 1,
                                Len(coded_bits))
         IN  IF crc32_bits(data_bits) = crc_bits
             THEN [is_valid |-> TRUE, data_bits |-> data_bits]
             ELSE [is_valid |-> FALSE, data_bits |-> <<>>]

_crc32_check_head(coded_bits) ==
    IF Len(coded_bits) < crc_length
    THEN [is_valid |-> FALSE, data_bits |-> coded_bits]
    ELSE LET data_bits == SubSeq(coded_bits, crc_length + 1, Len(coded_bits))
             crc_bits == SubSeq(coded_bits, 1, crc_length)
         IN  [is_valid |-> (crc32_bits(data_bits) = crc_bits),
              data_bits |-> data_bits]

\* _crc32_check: (is_valid, data_bits)
_crc32_check(coded_bits) ==
    IF Len(coded_bits) < crc_length
    THEN [is_valid |-> FALSE, data_bits |-> coded_bits]
    ELSE LET data_bits == SubSeq(coded_bits, 1, Len(coded_bits) - crc_length)
             crc_bits == SubSeq(coded_bits, Len(coded_bits) - crc_length + 1,
                                Len(coded_bits))
         IN  [is_valid |-> (crc32_bits(data_bits) = crc_bits),
              data_bits |-> data_bits]

(***************************************************************************)
(* CRC specification: a payload is framed, the channel flips a set of      *)
(* positions of the frame, and the received frame is checked.              *)
(***************************************************************************)
InitCrc ==
    /\ \E n \in 0..MaxPayload : \E p \in BitSeqs(n) :
          cr = [pc |-> "start", payload |-> p, frame |-> <<>>, flips |-> {},
                received |-> <<>>, is_valid |-> FALSE, data_bits |-> <<>>]
    /\ hb = Idle
    /\ bc = Idle
    /\ call = Idle
    /\ fx = Idle
    /\ sg = Idle
    /\ sd = Idle

CrcEncode ==
    /\ cr.pc = "start"
    /\ cr' = [cr EXCEPT !.pc = "framed", !.frame = _crc32_encode(cr.payload)]
    /\ UNCHANGED <<hb, bc, call, fx, sg, sd>>

CrcChannel ==
    /\ cr.pc = "framed"
    /\ \E F \in SubsetsUpTo(1..Len(cr.frame), MaxFrameFlips) :
          cr' = [cr EXCEPT !.pc = "received", !.flips = F,
                           !.received = FlipAt(cr.frame, F)]
    /\ UNCHANGED <<hb, bc, call, fx, sg, sd>>

CrcCheck ==
    /\ cr.pc = "received"
    /\ LET r == _crc32_check(cr.received)
       IN  cr' = [cr EXCEPT !.pc = "checked", !.is_valid = r.is_valid,
                            !.data_bits = r.data_bits]
    /\ UNCHANGED <<hb, bc, call, fx, sg, sd>>

NextCrc == CrcEncode \/ CrcChannel \/ CrcCheck

SpecCrc == InitCrc /\ [][NextCrc]_vars

\* C3: checking an unmodified frame reports it valid and returns the payload
\* that was framed, bit for bit, for every payload length (the empty one too).
C3_CrcRoundTrip ==
    (cr.pc = "checked" /\ cr.flips = {}) =>
        (cr.is_valid /\ cr.data_bits = cr.payload)

C3_Witness ==
    /\ cr.pc = "checked"
    /\ cr.flips = {}
    /\ cr.payload = <<1, 0, 1>>
    /\ cr.received = <<1, 0, 1,
                       1, 0, 0, 1, 0, 1, 1, 0, 1, 1, 0, 1, 1, 1, 0, 0,
                       0, 1, 0, 0, 0, 0, 0, 1, 1, 0, 0, 1, 0, 0, 0, 0>>
    /\ cr.is_valid
    /\ cr.data_bits = <<1, 0, 1>>

C3_WitnessEmpty ==
    /\ cr.pc = "checked"
    /\ cr.flips = {}
    /\ cr.payload = <<>>
    /\ cr.is_valid

\* C4: a frame with exactly one bit inverted, a payload bit or one of the 32
\* checksum bits, is reported invalid.
C4_SingleFlipDetected ==
    (cr.pc = "checked" /\ Cardinality(cr.flips) = 1) => ~cr.is_valid

C4_Witness ==
    /\ cr.pc = "checked"
    /\ cr.payload = <<1, 0, 1>>
    /\ cr.flips = {2}
    /\ ~cr.is_valid

C4_WitnessChecksumBit ==
    /\ cr.pc = "checked"
    /\ cr.payload = <<1, 0, 1>>
    /\ cr.flips = {35}
    /\ ~cr.is_valid

(***************************************************************************)
(* CRC-32 by integer arithmetic, to compare the frames with: the register  *)
(* is the pair <<hi, lo>> of its upper and lower 16 bits as numbers.       *)
(***************************************************************************)
RECURSIVE XorWord(_, _, _)
\* a ^ b on numbers of w bits
XorWord(a, b, w) ==
    IF w = 0 THEN 0
    ELSE ((a + b) % 2) + 2 * XorWord(a \div 2, b \div 2, w - 1)

\* 0xEDB8 and 0x8320
RefPoly == <<60856, 33568>>

\* one bit of the reflected bit-at-a-time algorithm
RefStep(reg, bit) ==
    LET hi == reg[1] \div 2
        lo == (reg[2] \div 2) + 32768 * (reg[1] % 2)
    IN  IF (reg[2] + bit) % 2 = 1
        THEN <<XorWord(hi, RefPoly[1], 16), XorWord(lo, RefPoly[2], 16)>>
        ELSE <<hi, lo>>

RECURSIVE RefRegister(_)
\* the register after the bits of data_bits, from 0xFFFFFFFF
RefRegister(data_bits) ==
    IF data_bits = <<>> THEN <<65535, 65535>>
    ELSE RefStep(RefRegister(SubSeq(data_bits, 1, Len(data_bits) - 1)),
                 data_bits[Len(data_bits)])

\* the 32 bits of a register, most significant first
RefBits(reg) ==
    [k \in 1..32 |-> IF k <= 16 THEN (reg[1] \div (2 ^ (16 - k))) % 2
                     ELSE (reg[2] \div (2 ^ (32 - k))) % 2]

\* the bit positions of a register that hold 1
RefOnes(reg) == {q \in 0..31 : RefBits(reg)[32 - q] = 1}

\* C19: the frame _crc32_encode returns for n bits has n + 32 bits, begins
\* with the n bits unchanged and ends with the 32 bits, most significant
\* first, of the CRC-32 register (reflected polynomial 0xEDB88320, initial
\* value 0xFFFFFFFF, final XOR 0xFFFFFFFF); after every bit of the loop the
\* register is a 32-bit value, the one integer arithmetic gives.
C19_FrameStructure ==
    (cr.pc = "framed") =>
        LET n == Len(cr.payload)
            final == RefRegister(cr.payload)
        IN  /\ Len(cr.frame) = n + 32
            /\ SubSeq(cr.frame, 1, n) = cr.payload
            /\ SubSeq(cr.frame, n + 1, n + 32) =
                  RefBits(<<65535 - final[1], 65535 - final[2]>>)
            /\ \A k \in 0..n :
                  LET reg == crc_loop(AllOnes32, SubSeq(cr.payload, 1, k))
                  IN  /\ reg \subseteq 0..31
                      /\ reg = RefOnes(RefRegister(SubSeq(cr.payload, 1, k)))

\* the frame of the payload 1, 0, 1: checksum 0x96DC4190
C19_Witness ==
    /\ cr.pc = "framed"
    /\ cr.payload = <<1, 0, 1>>
    /\ cr.frame = <<1, 0, 1,
                    1, 0, 0, 1, 0, 1, 1, 0, 1, 1, 0, 1, 1, 1, 0, 0,
                    0, 1, 0, 0, 0, 0, 0, 1, 1, 0, 0, 1, 0, 0, 0, 0>>

(***************************************************************************)
(* Check specification: _crc32_check is given a received stream of any     *)
(* length, a frame with flipped bits or a stream shorter than a checksum.  *)
(***************************************************************************)
\* the streams of at most n bits, all shorter than a checksum
ShortStreams(n) == UNION {BitSeqs(k) : k \in 0..n}

\* the frames of the payloads of at most n bits, with none or one of their
\* bits flipped on the way
FlippedFrames(n) ==
    UNION {{FlipAt(_crc32_encode(p), F) : F \in SubsetsUpTo(1..(Len(p) + 32), 1)} :
           p \in ShortStreams(n)}

InitCheck ==
    /\ \E received \in ShortStreams(MaxShortLen) \cup FlippedFrames(MaxShortLen) :
          cr = [pc |-> "received", payload |-> <<>>, frame |-> <<>>,
                flips |-> {}, received |-> received, is_valid |-> FALSE,
                data_bits |-> <<>>]
    /\ hb = Idle
    /\ bc = Idle
    /\ call = Idle
    /\ fx = Idle
    /\ sg = Idle
    /\ sd = Idle

SpecCheck == InitCheck /\ [][CrcCheck]_vars

\* C20 as stated: whatever the length of the received stream, the payload
\* returned is the stream without its last 32 bits.
C20_Last32Always ==
    (cr.pc = "checked") =>
        /\ Len(cr.data_bits) = Len(cr.received) - 32
        /\ cr.data_bits = SubSeq(cr.received, 1, Len(cr.received) - 32)

\* C20 amended: for a received stream of at least 32 bits the payload
\* returned is the stream without its last 32 bits, in order, and the verdict
\* is whether those 32 bits are the CRC-32 of the payload; a stream of fewer
\* than 32 bits is returned whole, with the verdict invalid.
C20_Last32WhenPresent ==
    (cr.pc = "checked") =>
        IF Len(cr.received) >= 32
        THEN LET n == Len(cr.received) - 32
                 final == RefRegister(SubSeq(cr.received, 1, n))
             IN  /\ cr.data_bits = SubSeq(cr.received, 1, n)
                 /\ cr.is_valid =
                       (SubSeq(cr.received, n + 1, n + 32) =
                           RefBits(<<65535 - final[1], 65535 - final[2]>>))
        ELSE /\ cr.data_bits = cr.received
             /\ ~cr.is_valid

\* a frame whose last checksum bit was flipped: payload 1, 0, 1, invalid
C20_Witness ==
    /\ cr.pc = "checked"
    /\ cr.received = <<1, 0, 1,
                       1, 0, 0, 1, 0, 1, 1, 0, 1, 1, 0, 1, 1, 1, 0, 0,
                       0, 1, 0, 0, 0, 0, 0, 1, 1, 0, 0, 1, 0, 0, 0, 1>>
    /\ cr.data_bits = <<1, 0, 1>>
    /\ ~cr.is_valid

\* a stream of 3 bits comes back whole
C20_WitnessShort ==
    /\ cr.pc = "checked"
    /\ cr.received = <<1, 0, 1>>
    /\ cr.data_bits = <<1, 0, 1>>
    /\ ~cr.is_valid

(***************************************************************************)
(* Quantisation: _audio2bits_safe and _bits2audio_safe (the same code in   *)
(* HammingCodeEffect and CRC32Effect).                                     *)
(***************************************************************************)
Sample(n, d) == [num |-> n, den |-> d]

\* self._int16_min, self._int16_max
_int16_min == -32768
_int16_max == 32767

\* np.clip(audio, -1.0, 1.0) on one sample
clip_unit(x) ==
    IF x.num > x.den THEN Sample(x.den, x.den)
    ELSE IF x.num < -x.den THEN Sample(-x.den, x.den)
    ELSE x

\* .astype(np.int32) of the float a/b, b > 0: the fraction is dropped
\* (truncation toward zero)
astype_int32(a, b) == IF a >= 0 THEN a \div b ELSE -((-a) \div b)

\* np.clip(v, self._int16_min, self._int16_max) on an integer
clip_int16(v) ==
    IF v < _int16_min THEN _int16_min
    ELSE IF v > _int16_max THEN _int16_max
    ELSE v

audio_int_32766(x, dtype) ==
    IF dtype = "float32"
    THEN LET c == clip_unit(x)
         IN  clip_int16(astype_int32(c.num * 32766, c.den))
    ELSE clip_int16(astype_int32(x.num, x.den))

\* audio_int of one sample.  float32: clip to [-1, 1], multiply by 32767, clip
\* to the int16 range, cast.  Any other dtype: clip the value itself to the
\* int16 range, cast (the bounds are integers, so clipping the value and then
\* dropping the fraction is dropping the fraction and then clipping).
audio_int(x, dtype) ==
    IF dtype = "float32"
    THEN LET c == clip_unit(x)
         IN  clip_int16(astype_int32(c.num * 32767, c.den))
    ELSE clip_int16(astype_int32(x.num, x.den))

Pow2(k) == 2 ^ k

int16_bits_lsb_first(v) == AsList([k \in 1..16 |-> (v \div Pow2(k - 1)) % 2])

\* chunk_bits[:, 15 - j] = (chunk >> j) & 1 for j in range(16): the 16 bits
\* of the two's-complement word, most significant first
int16_bits(v) == AsList([k \in 1..16 |-> (v \div Pow2(16 - k)) % 2])

\* _audio2bits_safe on a 1-D array of samples
_audio2bits_safe(audio, dtype) ==
    Flatten([i \in 1..Len(audio) |-> int16_bits(audio_int(audio[i], dtype))])

RECURSIVE word_value(_, _)
\* val = (val << 1) | int(bit) over a bit group, started from val
word_value(val, bit_group) ==
    IF bit_group = <<>> THEN val
    ELSE word_value(val * 2 + Head(bit_group), Tail(bit_group))

\* the signed value of a 16-bit group: if val & 0x8000: val -= 65536, then
\* np.clip to the int16 range
signed_word(bit_group) ==
    LET val == word_value(0, bit_group)
    IN  clip_int16(IF val >= 32768 THEN val - 65536 ELSE val)

\* _bits2audio_safe: pad to a multiple of 16, one float32 sample
\* audio_int / 32768.0 per 16-bit group, clipped to [-1, 1]
_bits2audio_safe(bits) ==
    LET pad_len == IF Len(bits) % 16 # 0 THEN 16 - (Len(bits) % 16) ELSE 0
        padded == PadZeros(bits, pad_len)
        num_samples == Len(padded) \div 16
    IN  AsList([i \in 1..num_samples |->
            clip_unit(Sample(signed_word(SubSeq(padded, 16 * (i - 1) + 1, 16 * i)),
                             32768))])

(***************************************************************************)
(* Quantiser specification: one sample is turned into 16 bits and back.    *)
(***************************************************************************)
DTypes == {"float32", "float64"}

InitBitCodec ==
    /\ \E n \in (-MaxSample)..MaxSample : \E t \in DTypes :
          bc = [pc |-> "start", dtype |-> t, audio |-> <<Sample(n, SampleDen)>>,
                bits |-> <<>>, out |-> <<>>]
    /\ hb = Idle
    /\ cr = Idle
    /\ call = Idle
    /\ fx = Idle
    /\ sg = Idle
    /\ sd = Idle

AudioToBits ==
    /\ bc.pc = "start"
    /\ bc' = [bc EXCEPT !.pc = "bits",
                        !.bits = _audio2bits_safe(bc.audio, bc.dtype)]
    /\ UNCHANGED <<hb, cr, call, fx, sg, sd>>

BitsToAudio ==
    /\ bc.pc = "bits"
    /\ bc' = [bc EXCEPT !.pc = "audio", !.out = _bits2audio_safe(bc.bits)]
    /\ UNCHANGED <<hb, cr, call, fx, sg, sd>>

NextBitCodec == AudioToBits \/ BitsToAudio

SpecBitCodec == InitBitCodec /\ [][NextBitCodec]_vars

\* x - r in units of 1/(32768 * x.den), for a reconstructed sample
\* r = r.num/32768: 32768 * x.num - r.num * x.den, summed so that no
\* intermediate value leaves 32 bits
ErrNum(x, r) == (32767 * x.num - r.num * x.den) + x.num

Abs(v) == IF v < 0 THEN -v ELSE v

InUnit(x) == -x.den <= x.num /\ x.num <= x.den

Array(shape, dtype, data) ==
    [kind |-> "ndarray", shape |-> shape, dtype |-> dtype, data |-> data]

NotAnArray == [kind |-> "object"]

\* self.error_rate = 0.0001 is 1 unit, so probability 1 is RateOne units
RateOne == 10000

Effects == {"HammingCodeEffect", "CRC32Effect", "CombinedChannelCodeEffect"}

Stages_crc_first(effect) ==
    CASE effect = "HammingCodeEffect" ->
            <<"audio2bits", "hamming_encode", "add_noise", "hamming_decode",
              "bits2audio", "truncate">>
      [] effect = "CRC32Effect" ->
            <<"audio2bits", "crc_encode", "add_noise", "crc_check",
              "bits2audio", "truncate">>
      [] effect = "CombinedChannelCodeEffect" ->
            <<"audio2bits", "crc_encode", "hamming_encode", "inline_noise",
              "hamming_decode", "crc_check", "bits2audio", "truncate">>

\* the steps of the loop body of each process method, in program order
Stages(effect) ==
    CASE effect = "HammingCodeEffect" ->
            <<"audio2bits", "hamming_encode", "add_noise", "hamming_decode",
              "bits2audio", "truncate">>
      [] effect = "CRC32Effect" ->
            <<"audio2bits", "crc_encode", "add_noise", "crc_check",
              "bits2audio", "truncate">>
      [] effect = "CombinedChannelCodeEffect" ->
            <<"audio2bits", "hamming_encode", "crc_encode", "inline_noise",
              "crc_check", "hamming_decode", "bits2audio", "truncate">>

NoiseStages == {"add_noise", "inline_noise"}

hamming_encode_stream_prepad(bits) ==
    LET pad_len == (4 - (Len(bits) % 4)) % 4
        bits_pad == AsList([i \in 1..pad_len |-> 0]) \o bits
        num_groups == Len(bits_pad) \div 4
    IN  Flatten([i \in 1..num_groups |->
                    _hamming_7_4_encode(SubSeq(bits_pad, 4 * (i - 1) + 1, 4 * i))])

\* pad to a multiple of 4, encode every 4-bit group, concatenate
hamming_encode_stream(bits) ==
    LET pad_len == (4 - (Len(bits) % 4)) % 4
        bits_pad == PadZeros(bits, pad_len)
        num_groups == Len(bits_pad) \div 4
    IN  Flatten([i \in 1..num_groups |->
                    _hamming_7_4_encode(SubSeq(bits_pad, 4 * (i - 1) + 1, 4 * i))])

\* decode every whole 7-bit group, concatenate
hamming_decode_stream(coded) ==
    LET num_coded_groups == Len(coded) \div 7
    IN  Flatten([i \in 1..num_coded_groups |->
                    _hamming_7_4_decode(SubSeq(coded, 7 * (i - 1) + 1, 7 * i))])

\* how many 7-bit groups of the stream the decoder changes (error_pos # 0)
corrected_groups(coded) ==
    Cardinality({i \in 1..(Len(coded) \div 7) :
                    error_pos(SubSeq(coded, 7 * (i - 1) + 1, 7 * i)) # 0})

\* does _audio2bits_safe run through on this channel?  A 1-D channel always;
\* a 2-D one (a slice of a 3-D buffer) only when no row is written
\* (no rows) or the (rows, cols) block fits one column of chunk_bits
audio2bits_runs(chan, chan_ndim) ==
    \/ chan_ndim = 1
    \/ chan_ndim = 2 /\ Len(chan) = 0
    \/ chan_ndim = 2 /\ Len(chan) = 1 /\ Len(chan[1]) = 1

\* the samples _audio2bits_safe turns into bits
audio2bits_samples(chan, chan_ndim) ==
    IF chan_ndim = 1 THEN chan
    ELSE IF Len(chan) = 0 THEN <<>>
    ELSE chan[1]

\* the locals of one turn of the loop body
FreshLocals ==
    [stream |-> <<>>, orig_len |-> 0, noise |-> {}, is_valid |-> TRUE,
     corrected |-> 0, draws |-> 0, chan_proc |-> <<>>, exc |-> "none",
     entered |-> <<>>]

\* one step of the loop body on the locals st; c gives the channel, its
\* rank and dtype, error_rate, the positions the random draw flips and the
\* step (if any) in which an allocation fails
StageStep(stage, st, c) ==
    IF st.exc # "none" THEN st
    ELSE LET s == [st EXCEPT !.entered = Append(@, stage)]
         IN
         IF c.fault_stage = stage THEN [s EXCEPT !.exc = "MemoryError"]
         ELSE
         CASE stage = "audio2bits" ->
                 IF audio2bits_runs(c.chan, c.chan_ndim)
                 THEN [s EXCEPT !.stream = _audio2bits_safe(
                                    audio2bits_samples(c.chan, c.chan_ndim), c.dtype)]
                 ELSE [s EXCEPT !.exc = "ValueError"]
           [] stage = "hamming_encode" ->
                 [s EXCEPT !.orig_len = Len(s.stream),
                           !.stream = hamming_encode_stream(s.stream)]
           [] stage = "crc_encode" ->
                 [s EXCEPT !.stream = _crc32_encode(s.stream)]
           [] stage = "add_noise" ->
                 IF c.error_rate <= 0 THEN s
                 ELSE IF c.error_rate > RateOne THEN [s EXCEPT !.exc = "ValueError"]
                 ELSE [s EXCEPT !.noise = c.flips,
                                !.draws = Len(s.stream),
                                !.stream = FlipAt(s.stream, c.flips)]
           [] stage = "inline_noise" ->
                 IF c.error_rate < 0 \/ c.error_rate > RateOne
                 THEN [s EXCEPT !.exc = "ValueError"]
                 ELSE [s EXCEPT !.noise = c.flips,
                                !.draws = Len(s.stream),
                                !.stream = FlipAt(s.stream, c.flips)]
           [] stage = "crc_check" ->
                 LET r == _crc32_check(s.stream)
                 IN  [s EXCEPT !.is_valid = r.is_valid, !.stream = r.data_bits]
           [] stage = "hamming_decode" ->
                 [s EXCEPT !.corrected = corrected_groups(s.stream),
                           !.stream = Take(hamming_decode_stream(s.stream),
                                           s.orig_len)]
           [] stage = "bits2audio" ->
                 [s EXCEPT !.chan_proc = _bits2audio_safe(s.stream)]
           [] stage = "truncate" ->
                 LET target_len == IF Len(s.chan_proc) < Len(c.chan)
                                   THEN Len(s.chan_proc) ELSE Len(c.chan)
                 IN  [s EXCEPT !.chan_proc = Take(s.chan_proc, target_len)]

RECURSIVE RunStages(_, _, _)
\* the steps of stages in order, from the locals st
RunStages(stages, st, c) ==
    IF stages = <<>> THEN st
    ELSE RunStages(Tail(stages), StageStep(Head(stages), st, c), c)

\* the steps before the noise step, and the noise step with those after it
BeforeNoise(effect) ==
    LET S == Stages(effect)
        k == CHOOSE i \in 1..Len(S) : S[i] \in NoiseStages
    IN  SubSeq(S, 1, k - 1)

FromNoise(effect) ==
    LET S == Stages(effect)
        k == CHOOSE i \in 1..Len(S) : S[i] \in NoiseStages
    IN  SubSeq(S, k, Len(S))

\* the noise vectors np.random.choice([0, 1], size=len, p=[1 - e, e]) can
\* return, as the set of positions holding 1: none for e = 0, all for e = 1,
\* otherwise any (here: at most budget of them)
NoiseChoices(error_rate, len, budget) ==
    IF error_rate <= 0 \/ error_rate > RateOne THEN {{}}
    ELSE IF error_rate = RateOne THEN {1..len}
    ELSE SubsetsUpTo(1..len, budget)
\* the rank of an array
ndim(a) == Len(a.shape)

\* audio.reshape(1, -1) of a 1-D array
reshape_row(a) == Array(<<1, a.shape[1]>>, a.dtype, <<a.data>>)

\* the number of elements of a shape
RECURSIVE Size(_)
Size(shape) == IF shape = <<>> THEN 1 ELSE Head(shape) * Size(Tail(shape))

\* flat.reshape(shape) for a 1-, 2- or 3-dimensional shape of the same size
Reshape(flat, shape) ==
    CASE Len(shape) = 1 -> flat
      [] Len(shape) = 2 ->
            AsList([i \in 1..shape[1] |->
                SubSeq(flat, shape[2] * (i - 1) + 1, shape[2] * i)])
      [] Len(shape) = 3 ->
            AsList([i \in 1..shape[1] |->
                AsList([j \in 1..shape[2] |->
                    SubSeq(flat, shape[3] * (shape[2] * (i - 1) + (j - 1)) + 1,
                                 shape[3] * (shape[2] * (i - 1) + j))])])

NoFault == [chan |-> 0, stage |-> "none"]

\* the state of a call before its first statement; budget is the number of
\* ones explored in the noise vectors of the call
NewCall(effect, error_rate, audio, fault) ==
    [pc |-> "entry", effect |-> effect, error_rate |-> error_rate,
     arg |-> audio, audio |-> audio, original_shape |-> <<>>,
     processed_channels |-> <<>>, result |-> NotAnArray, exc |-> "none",
     log |-> <<>>, stages |-> <<>>, noise |-> <<>>, is_valid |-> <<>>,
     corrected |-> <<>>, draws |-> 0, flipped |-> 0, budget |-> MaxFlips,
     fault |-> fault]

\* try: original_shape = audio.shape; the reshape of a 1-D buffer;
\* processed_channels = []; the start of "for chan in audio"
Enter ==
    /\ call.pc = "entry"
    /\ call' =
         IF call.audio.kind # "ndarray"
         THEN [call EXCEPT !.pc = "except", !.exc = "AttributeError"]
         ELSE LET a == IF ndim(call.audio) = 1 THEN reshape_row(call.audio)
                       ELSE call.audio
              IN  IF ndim(a) = 0
                  THEN [call EXCEPT !.pc = "except", !.exc = "TypeError",
                                    !.original_shape = call.audio.shape]
                  ELSE [call EXCEPT !.pc = "loop", !.audio = a,
                                    !.original_shape = call.audio.shape]
    /\ UNCHANGED <<hb, cr, bc, fx, sg, sd>>

\* one turn of "for chan in audio": the loop body on the next channel
ProcessChannel ==
    /\ call.pc = "loop"
    /\ Len(call.processed_channels) < Len(call.audio.data)
    /\ LET idx == Len(call.processed_channels) + 1
           c0 == [chan |-> call.audio.data[idx],
                  chan_ndim |-> ndim(call.audio) - 1,
                  dtype |-> call.audio.dtype,
                  error_rate |-> call.error_rate,
                  flips |-> {},
                  fault_stage |-> IF call.fault.chan = idx THEN call.fault.stage
                                  ELSE "none"]
       IN  \E pre \in {RunStages(BeforeNoise(call.effect), FreshLocals, c0)} :
           \E F \in NoiseChoices(call.error_rate, Len(pre.stream),
                                 call.budget - call.flipped) :
           \E st \in {RunStages(FromNoise(call.effect), pre,
                                [c0 EXCEPT !.flips = F])} :
             LET seen == [call EXCEPT
                            !.stages = @ \o AsList([i \in 1..Len(st.entered) |->
                                                       <<idx, st.entered[i]>>]),
                            !.noise = Append(@, st.noise),
                            !.is_valid = Append(@, st.is_valid),
                            !.corrected = Append(@, st.corrected),
                            !.draws = @ + st.draws,
                            !.flipped = IF call.error_rate < RateOne
                                        THEN @ + Cardinality(st.noise) ELSE @,
                            !.log = IF st.exc = "none" /\ ~st.is_valid
                                    THEN Append(@, "crc check failed") ELSE @]
             IN  call' = IF st.exc # "none"
                         THEN [seen EXCEPT !.pc = "except", !.exc = st.exc]
                         ELSE [seen EXCEPT !.processed_channels =
                                              Append(@, st.chan_proc)]
    /\ UNCHANGED <<hb, cr, bc, fx, sg, sd>>

\* after the loop: one channel as it is or np.vstack of several, flatten for
\* a 1-D buffer, astype(float32), reshape to original_shape, return
Assemble ==
    /\ call.pc = "loop"
    /\ Len(call.processed_channels) = Len(call.audio.data)
    /\ LET n == Len(call.processed_channels)
           flat == Flatten(call.processed_channels)
       IN  call' =
             IF n = 0
             THEN [call EXCEPT !.pc = "except", !.exc = "ValueError"]
             ELSE IF Len(flat) # Size(call.original_shape)
             THEN [call EXCEPT !.pc = "except", !.exc = "ValueError"]
             ELSE [call EXCEPT !.pc = "returned",
                               !.result = Array(call.original_shape, "float32",
                                                Reshape(flat, call.original_shape))]
    /\ UNCHANGED <<hb, cr, bc, fx, sg, sd>>

\* except Exception as e: print(...);
\* return audio.astype(np.float32) if audio.dtype != np.float32 else audio
Except ==
    /\ call.pc = "except"
    /\ LET logged == [call EXCEPT !.log = Append(@, "processing error: " \o call.exc)]
       IN  call' =
             IF call.audio.kind # "ndarray"
             THEN [logged EXCEPT !.pc = "raised", !.exc = "AttributeError"]
             ELSE [logged EXCEPT !.pc = "returned",
                                 !.result = [call.audio EXCEPT !.dtype = "float32"]]
    /\ UNCHANGED <<hb, cr, bc, fx, sg, sd>>

NextProcess == Enter \/ ProcessChannel \/ Assemble \/ Except
(***************************************************************************)
(* The calls explored: every effect; buffers of every rank from 0 to 3 and *)
(* an object that is no array, with the error rates for which the noise    *)
(* step draws nothing or has one outcome; and the small float32 buffers    *)
(* with the default error rate, where the noise step can flip any bits.    *)
(***************************************************************************)
\* self.error_rate = 0.0001, the default
DefaultRate == 1

\* -0.0001, 0, 1 and 2
FixedRates == {-1, 0, RateOne, 2 * RateOne}

\* the sample values 0 and -(SampleDen - 1)/SampleDen
ProcSamples == {Sample(0, SampleDen), Sample(-(SampleDen - 1), SampleDen)}

Arrays0D == {Array(<<>>, t, x) : t \in DTypes, x \in ProcSamples}

Arrays1D ==
    UNION {{Array(<<n>>, t, d) : t \in DTypes, d \in [1..n -> ProcSamples]} :
              n \in 0..MaxLen}

Arrays2D ==
    UNION {{Array(<<c, n>>, t, d) :
               t \in DTypes, d \in [1..c -> [1..n -> ProcSamples]]} :
              c \in 0..MaxChannels, n \in 0..MaxLen}

\* 3-D buffers of shape (c, 1, 1), (c, 1, 2) and (c, 2, 1), one value throughout
Arrays3D ==
    {Array(<<c, rn[1], rn[2]>>, t,
           [i \in 1..c |-> [j \in 1..rn[1] |-> [k \in 1..rn[2] |-> x]]]) :
        c \in 1..MaxChannels, rn \in {<<1, 1>>, <<1, 2>>, <<2, 1>>},
        t \in DTypes, x \in ProcSamples}

Buffers == Arrays0D \cup Arrays1D \cup Arrays2D \cup Arrays3D \cup {NotAnArray}

\* the float32 buffers of at most two dimensions and two samples, at most one
\* sample to a row, of one value throughout
NoisyBuffers ==
    {a \in Buffers \ {NotAnArray} :
        /\ a.dtype = "float32"
        /\ ndim(a) <= 2
        /\ Size(a.shape) <= 2
        /\ a.shape # <<>> => a.shape[Len(a.shape)] <= 1
        /\ \E x \in ProcSamples :
              a.data = IF a.shape = <<>> THEN x
                       ELSE Reshape(AsList([i \in 1..Size(a.shape) |-> x]), a.shape)}

\* the 16-sample all-zero float32 channel
Zeros16 == Array(<<16>>, "float32", [i \in 1..16 |-> Sample(0, SampleDen)])

InitProcess ==
    /\ \/ \E e \in Effects, r \in FixedRates, a \in Buffers :
             call = NewCall(e, r, a, NoFault)
       \/ \E e \in Effects, a \in NoisyBuffers :
             call = NewCall(e, DefaultRate, a, NoFault)
       \/ \E e \in Effects : call = NewCall(e, 0, Zeros16, NoFault)
    /\ hb = Idle
    /\ cr = Idle
    /\ bc = Idle
    /\ fx = Idle
    /\ sg = Idle
    /\ sd = Idle

SpecProcess == InitProcess /\ [][NextProcess]_vars

(***************************************************************************)
(* The same calls with an allocation that fails: error_rate is 0, the      *)
(* buffer is 2-D float32 with at least one channel, and in one step of one *)
(* channel's turn of the loop numpy raises MemoryError.                    *)
(***************************************************************************)
\* the steps of the loop body that allocate an array
AllocatingStages ==
    {"audio2bits", "hamming_encode", "crc_encode", "crc_check",
     "hamming_decode", "bits2audio"}

ChannelFaults ==
    {[chan |-> k, stage |-> s] : k \in 1..MaxChannels, s \in AllocatingStages}

InitFault ==
    /\ \E e \in Effects, f \in ChannelFaults \cup {NoFault} :
       \E a \in {b \in Arrays2D : b.dtype = "float32" /\ b.shape[1] >= 1} :
             call = NewCall(e, 0, a, f)
    /\ hb = Idle
    /\ cr = Idle
    /\ bc = Idle
    /\ fx = Idle
    /\ sg = Idle
    /\ sd = Idle

SpecFault == InitFault /\ [][NextProcess]_vars

\* the quantisation round trip of one channel
quantised(chan, dtype) == _bits2audio_safe(_audio2bits_safe(chan, dtype))

\* the channels of a 1-D or 2-D buffer
Channels(a) == IF ndim(a) = 1 THEN <<a.data>> ELSE a.data

WellFormed(a) == a.kind = "ndarray" /\ ndim(a) \in {1, 2}

\* C6: with error_rate = 0, CombinedChannelCodeEffect.process returns, for a
\* 1-D or 2-D buffer with at least one channel, every channel as its
\* quantisation round trip; no exception was raised on the way, every CRC
\* check reported valid and no Hamming block was corrected.
C6_ZeroRateIsQuantisation ==
    (/\ call.pc = "returned"
     /\ call.effect = "CombinedChannelCodeEffect"
     /\ call.error_rate = 0
     /\ WellFormed(call.arg)
     /\ Len(Channels(call.arg)) >= 1) =>
        /\ call.exc = "none"
        /\ Len(Channels(call.result)) = Len(Channels(call.arg))
        /\ \A i \in 1..Len(Channels(call.arg)) :
              /\ Channels(call.result)[i] =
                     quantised(Channels(call.arg)[i], call.arg.dtype)
              /\ call.is_valid[i]
              /\ call.corrected[i] = 0
              /\ call.noise[i] = {}

\* the 16-sample all-zero channel comes back as 16 zero samples
C6_Witness ==
    /\ call.pc = "returned"
    /\ call.effect = "CombinedChannelCodeEffect"
    /\ call.error_rate = 0
    /\ call.arg = Zeros16
    /\ call.result.shape = <<16>>
    /\ call.result.data = [i \in 1..16 |-> Sample(0, 32768)]
    /\ call.is_valid = <<TRUE>>
    /\ call.corrected = <<0>>

\* C7 as stated: a call with a 1-D or 2-D buffer returns a buffer of the
\* shape of its argument, on the normal path and on the fallback path alike.
C7_ShapePreserved ==
    (call.pc = "returned" /\ WellFormed(call.arg)) =>
        call.result.shape = call.arg.shape

\* C8 as stated: no call ends by raising an exception.
C8_NoExceptionEscapes == call.pc # "raised"

Finished == call.pc \in {"returned", "raised"}

\* two sample sequences of equal values, whatever their denominators
SameSamples(xs, ys) ==
    /\ Len(xs) = Len(ys)
    /\ \A k \in 1..Len(xs) :
          IF xs[k].den = ys[k].den THEN xs[k].num = ys[k].num
          ELSE xs[k].num * ys[k].den = ys[k].num * xs[k].den

\* C9 as stated: when one channel's turn of the loop of
\* CombinedChannelCodeEffect.process raises, the returned buffer holds that
\* channel's original samples and, for every other channel, the codec result
\* (with error_rate = 0, its quantisation round trip).
C9_OnlyFailingChannelFallsBack ==
    (/\ call.pc = "returned"
     /\ call.effect = "CombinedChannelCodeEffect"
     /\ call.exc = "MemoryError") =>
        \A i \in 1..Len(call.arg.data) :
            IF i = call.fault.chan
            THEN SameSamples(call.result.data[i], call.arg.data[i])
            ELSE SameSamples(call.result.data[i],
                             quantised(call.arg.data[i], call.arg.dtype))

\* C10 as stated: a call with a buffer of rank other than 1 or 2 ends by
\* raising an error, and no step of the loop body was entered before it.
C10_MalformedFailsFast ==
    (Finished /\ call.arg.kind = "ndarray" /\ ndim(call.arg) \notin {1, 2}) =>
        (call.pc = "raised" /\ call.stages = <<>>)

(***************************************************************************)
(* Construction and configuration of the effects.  Only HammingEncoder and *)
(* HammingDecoder take error_rate as a constructor argument; the other     *)
(* three set the default.  error_rate is a plain instance attribute, which *)
(* the holder of the object can assign, and process() only reads it.       *)
(***************************************************************************)
\* most calls of process on one constructed effect
MaxUses == 2

Classes == Effects \cup {"HammingEncoder", "HammingDecoder"}

\* def __init__(self, error_rate=0.0001) against def __init__(self)
TakesRate(cls) == cls \in {"HammingEncoder", "HammingDecoder"}

\* the values tried for error_rate: -0.0001, 0, the default, 1 and 2
RateArgs == FixedRates \cup {DefaultRate}

\* the object __init__ leaves behind; rate is the argument passed, if the
\* class takes one
__init__(cls, rate) ==
    [pc |-> "constructed", cls |-> cls,
     error_rate |-> IF TakesRate(cls) THEN rate ELSE DefaultRate,
     constructed_with |-> IF TakesRate(cls) THEN rate ELSE DefaultRate,
     uses |-> 0]

InitConfig ==
    /\ \E cls \in Classes :
       \E rate \in IF TakesRate(cls) THEN RateArgs ELSE {DefaultRate} :
             fx = [pc |-> "new", cls |-> cls, arg |-> rate]
    /\ hb = Idle
    /\ cr = Idle
    /\ bc = Idle
    /\ call = Idle
    /\ sg = Idle
    /\ sd = Idle

\* the constructor call: no branch of any __init__ raises
Construct ==
    /\ fx.pc = "new"
    /\ fx' = __init__(fx.cls, fx.arg)
    /\ UNCHANGED <<hb, cr, bc, call, sg, sd>>

\* effect.error_rate = r, an assignment to the instance attribute
SetErrorRate ==
    /\ fx.pc = "constructed"
    /\ \E r \in RateArgs : fx' = [fx EXCEPT !.error_rate = r]
    /\ UNCHANGED <<hb, cr, bc, call, sg, sd>>

\* a call of process: it reads self.error_rate and assigns no attribute
UseProcess ==
    /\ fx.pc = "constructed"
    /\ fx.uses < MaxUses
    /\ fx' = [fx EXCEPT !.uses = @ + 1]
    /\ UNCHANGED <<hb, cr, bc, call, sg, sd>>

NextConfig == Construct \/ SetErrorRate \/ UseProcess

SpecConfig == InitConfig /\ [][NextConfig]_vars

\* C11 as stated: every constructed effect has an error_rate inside [0, 1]
\* (a construction with a value outside it was rejected), and it is still
\* the value the effect was constructed with.
C11_RateValidatedAndFixed ==
    (fx.pc = "constructed") =>
        /\ 0 <= fx.error_rate /\ fx.error_rate <= RateOne
        /\ fx.error_rate = fx.constructed_with

(***************************************************************************)
(* HammingEncoder and HammingDecoder: the single-stage effects.  Their     *)
(* process methods have no try/except.  The run below is the one           *)
(* AudioPipeline.run makes with the list [HammingEncoder, HammingDecoder]: *)
(* each effect is given what the one before it returned.                   *)
(***************************************************************************)
\* audio.flatten(): the elements in row-major order
flatten(a) ==
    CASE ndim(a) = 0 -> <<a.data>>
      [] ndim(a) = 1 -> a.data
      [] ndim(a) = 2 -> Flatten(a.data)
      [] ndim(a) = 3 -> Flatten(AsList([i \in 1..Len(a.data) |->
                                           Flatten(a.data[i])]))

\* HammingEncoder._audio2bits: statement for statement the code of
\* HammingCodeEffect._audio2bits_safe
_audio2bits(audio, dtype) == _audio2bits_safe(audio, dtype)

\* HammingEncoder._hamming_encode_only: pad to a multiple of 4, encode each
\* group in line, keep the first orig_len * 7 // 4 coded bits
_hamming_encode_only(bits) ==
    LET orig_len == Len(bits)
        pad_len == (4 - (orig_len % 4)) % 4
        bits_pad == PadZeros(bits, pad_len)
        num_groups == Len(bits_pad) \div 4
        group(i) ==
            LET d1 == bits_pad[4 * (i - 1) + 1]
                d2 == bits_pad[4 * (i - 1) + 2]
                d3 == bits_pad[4 * (i - 1) + 3]
                d4 == bits_pad[4 * (i - 1) + 4]
                p1 == Xor(Xor(d1, d2), d4)
                p2 == Xor(Xor(d1, d3), d4)
                p3 == Xor(Xor(d2, d3), d4)
            IN  <<p1, p2, d1, p3, d2, d3, d4>>
        coded == Flatten(AsList([i \in 1..num_groups |-> group(i)]))
        output_len == (orig_len * 7) \div 4
    IN  Take(coded, output_len)

_hamming_decode_only_nofix(coded_bits) ==
    LET pad_len == IF Len(coded_bits) % 7 # 0 THEN 7 - (Len(coded_bits) % 7)
                   ELSE 0
        padded == PadZeros(coded_bits, pad_len)
        num_groups == Len(padded) \div 7
    IN  Flatten(AsList([i \in 1..num_groups |->
            <<padded[7 * (i - 1) + 3], padded[7 * (i - 1) + 5],
              padded[7 * (i - 1) + 6], padded[7 * (i - 1) + 7]>>]))

\* HammingDecoder._hamming_decode_only: pad to a multiple of 7, decode each
\* group in line
_hamming_decode_only(coded_bits) ==
    LET pad_len == IF Len(coded_bits) % 7 # 0 THEN 7 - (Len(coded_bits) % 7)
                   ELSE 0
        padded == PadZeros(coded_bits, pad_len)
        num_groups == Len(padded) \div 7
        decode(i) ==
            LET g == SubSeq(padded, 7 * (i - 1) + 1, 7 * i)
                s1 == Xor(Xor(Xor(g[1], g[3]), g[5]), g[7])
                s2 == Xor(Xor(Xor(g[2], g[3]), g[6]), g[7])
                s3 == Xor(Xor(Xor(g[4], g[5]), g[6]), g[7])
                pos == s3 * 4 + s2 * 2 + s1 * 1
                fixed == IF pos # 0 /\ pos <= 7
                         THEN [g EXCEPT ![pos] = 1 - g[pos]] ELSE g
            IN  <<fixed[3], fixed[5], fixed[6], fixed[7]>>
    IN  Flatten(AsList([i \in 1..num_groups |-> decode(i)]))

\* HammingDecoder._bits2audio: pad to a multiple of 16, rebuild each signed
\* 16-bit value, np.clip(val / 32768.0, -1.0, 1.0)
_bits2audio(bits) ==
    LET pad_len == IF Len(bits) % 16 # 0 THEN 16 - (Len(bits) % 16) ELSE 0
        padded == PadZeros(bits, pad_len)
        num_samples == Len(padded) \div 16
    IN  AsList([i \in 1..num_samples |->
            clip_unit(Sample(signed_word(SubSeq(padded, 16 * (i - 1) + 1, 16 * i)),
                             32768))])

\* HammingEncoder.process: the encoded bits as a 1-D uint8 array
HammingEncoder_process(audio) ==
    LET bits == _audio2bits(flatten(audio), audio.dtype)
        encoded == _hamming_encode_only(bits)
    IN  Array(<<Len(encoded)>>, "uint8", encoded)

\* HammingDecoder.process: the decoded audio as a 1-D float32 array
HammingDecoder_process(coded_bits) ==
    LET decoded_bits == _hamming_decode_only(coded_bits.data)
        audio == _bits2audio(decoded_bits)
    IN  Array(<<Len(audio)>>, "float32", audio)

\* what one effect of the list did: its argument's and its result's shape
\* and element type
Passed(effect, arg, result) ==
    [effect |-> effect, in_shape |-> arg.shape, in_dtype |-> arg.dtype,
     out_shape |-> result.shape, out_dtype |-> result.dtype]

InitStage ==
    /\ \E a \in Buffers : sg = [pc |-> "start", audio |-> a, chain |-> <<>>]
    /\ hb = Idle
    /\ cr = Idle
    /\ bc = Idle
    /\ call = Idle
    /\ fx = Idle
    /\ sd = Idle

\* audio = effect.process(audio, samplerate) with effect a HammingEncoder
EncoderProcess ==
    /\ sg.pc = "start"
    /\ sg' = IF sg.audio.kind # "ndarray"
             THEN [sg EXCEPT !.pc = "raised"]
             ELSE LET r == HammingEncoder_process(sg.audio)
                  IN  [sg EXCEPT !.pc = "encoded", !.audio = r,
                         !.chain = Append(@, Passed("HammingEncoder", sg.audio, r))]
    /\ UNCHANGED <<hb, cr, bc, call, fx, sd>>

\* audio = effect.process(audio, samplerate) with effect a HammingDecoder
DecoderProcess ==
    /\ sg.pc = "encoded"
    /\ LET r == HammingDecoder_process(sg.audio)
       IN  sg' = [sg EXCEPT !.pc = "decoded", !.audio = r,
                     !.chain = Append(@, Passed("HammingDecoder", sg.audio, r))]
    /\ UNCHANGED <<hb, cr, bc, call, fx, sd>>

NextStage == EncoderProcess \/ DecoderProcess

SpecStage == InitStage /\ [][NextStage]_vars

\* C12 as stated: every effect of the list returned a buffer of the shape
\* and element type of the buffer it was given.
C12_SameShapeAndType ==
    \A k \in 1..Len(sg.chain) :
        /\ sg.chain[k].out_shape = sg.chain[k].in_shape
        /\ sg.chain[k].out_dtype = sg.chain[k].in_dtype

\* the stream one channel hands to the noise step
noise_input(effect, chan, dtype) ==
    RunStages(BeforeNoise(effect), FreshLocals,
              [chan |-> chan, chan_ndim |-> 1, dtype |-> dtype, error_rate |-> 0,
               flips |-> {}, fault_stage |-> "none"]).stream

RECURSIVE noise_input_bits(_, _, _)
\* the bits handed to the noise step over all the channels chans
noise_input_bits(effect, chans, dtype) ==
    IF chans = <<>> THEN 0
    ELSE Len(noise_input(effect, Head(chans), dtype))
            + noise_input_bits(effect, Tail(chans), dtype)

\* C13 as stated: a call with error_rate in [0, 1] that ran through has taken
\* from the random source exactly one draw for every bit it handed to the
\* noise step.
C13_OneDrawPerBit ==
    (/\ call.pc = "returned"
     /\ call.exc = "none"
     /\ WellFormed(call.arg)
     /\ 0 <= call.error_rate /\ call.error_rate <= RateOne) =>
        call.draws = noise_input_bits(call.effect, Channels(call.arg),
                                      call.arg.dtype)

\* the stream one channel received: what it handed to the noise step with
\* the positions of flips inverted
received_stream(effect, chan, dtype, flips) ==
    FlipAt(noise_input(effect, chan, dtype), flips)

\* the channel decoded from the payload of a received stream, the bits before
\* its last 32, with no regard to those 32
decoded_payload(effect, chan, received) ==
    LET payload == SubSeq(received, 1, Len(received) - 32)
        bits == IF effect = "CombinedChannelCodeEffect"
                THEN Take(hamming_decode_stream(payload), 16 * Len(chan))
                ELSE payload
    IN  Take(_bits2audio_safe(bits), Len(chan))

ChecksCrc(effect) == effect \in {"CRC32Effect", "CombinedChannelCodeEffect"}

\* C14: a call of CRC32Effect.process or CombinedChannelCodeEffect.process
\* with a 1-D or 2-D buffer of at least one channel and error_rate in [0, 1]
\* ends by returning, no exception raised or caught, and every returned
\* channel, its CRC check valid or not, is the audio decoded from the payload
\* that channel received; a mismatch is logged.
C14_MismatchContinues ==
    (/\ Finished
     /\ ChecksCrc(call.effect)
     /\ WellFormed(call.arg)
     /\ Len(Channels(call.arg)) >= 1
     /\ 0 <= call.error_rate /\ call.error_rate <= RateOne) =>
        /\ call.pc = "returned"
        /\ call.exc = "none"
        /\ Len(Channels(call.result)) = Len(Channels(call.arg))
        /\ \A i \in 1..Len(Channels(call.arg)) :
              /\ Channels(call.result)[i] =
                    decoded_payload(call.effect, Channels(call.arg)[i],
                        received_stream(call.effect, Channels(call.arg)[i],
                                        call.arg.dtype, call.noise[i]))
              /\ ~call.is_valid[i] =>
                    \E k \in 1..Len(call.log) : call.log[k] = "crc check failed"

\* one flipped bit, the check fails, the call returns the decoded channel
C14_Witness ==
    /\ call.pc = "returned"
    /\ call.effect = "CombinedChannelCodeEffect"
    /\ call.error_rate = DefaultRate
    /\ call.arg.shape = <<1>>
    /\ Cardinality(call.noise[1]) = 1
    /\ call.is_valid = <<FALSE>>
    /\ call.exc = "none"
    /\ call.log = <<"crc check failed">>
    /\ call.result.shape = <<1>>

(***************************************************************************)
(* The loop of process over a seeded random source.  np.random is one      *)
(* generator for the whole process; seeded, it yields a fixed series of    *)
(* draws, and tape is the set of the positions of that series whose draw   *)
(* makes np.random.choice return 1.  A channel whose noise step starts     *)
(* after pos draws and asks for n of them gets the noise vector with 1 at  *)
(* k exactly when pos + k is in tape.  The source runs the channels in     *)
(* index order; order is the order a caller dispatching them would use.    *)
(***************************************************************************)
\* the permutations of 1..n, as sequences
Orders(n) == {o \in [1..n -> 1..n] : \A a, b \in 1..n : o[a] = o[b] => a = b}

\* the noise vector drawn from position pos on, for a stream of n bits
drawn(tape, pos, n) == {k \in 1..n : (pos + k) \in tape}

\* the loop body on channel order[done + 1], its result put at that index
seeded_turn(s) ==
    LET idx == s.order[s.done + 1]
        chan == s.audio.data[idx]
        n == Len(noise_input(s.effect, chan, s.audio.dtype))
        st == RunStages(Stages(s.effect), FreshLocals,
                        [chan |-> chan, chan_ndim |-> 1, dtype |-> s.audio.dtype,
                         error_rate |-> DefaultRate,
                         flips |-> drawn(s.tape, s.pos, n),
                         fault_stage |-> "none"])
    IN  [s EXCEPT !.done = @ + 1, !.pos = @ + st.draws,
                  !.out = [@ EXCEPT ![idx] = st.chan_proc]]

RECURSIVE seeded_loop(_)
\* all the turns that remain
seeded_loop(s) ==
    IF s.done = Len(s.order) THEN s ELSE seeded_loop(seeded_turn(s))

\* a call about to enter the loop
SeededCall(effect, audio, tape, order) ==
    [pc |-> "loop", effect |-> effect, audio |-> audio, tape |-> tape,
     order |-> order, done |-> 0, pos |-> 0,
     out |-> [i \in 1..Len(audio.data) |-> <<>>]]

InitSeeded ==
    /\ \E e \in Effects :
       \E a \in {b \in NoisyBuffers : ndim(b) = 2 /\ b.shape[1] >= 2 /\ b.shape[2] >= 1} :
       \E o \in Orders(Len(a.data)) :
       \E t \in SubsetsUpTo(1..noise_input_bits(e, a.data, a.dtype), MaxFlips) :
             sd = SeededCall(e, a, t, o)
    /\ hb = Idle
    /\ cr = Idle
    /\ bc = Idle
    /\ call = Idle
    /\ fx = Idle
    /\ sg = Idle

\* one turn of the loop
SeededChannel ==
    /\ sd.pc = "loop"
    /\ sd.done < Len(sd.order)
    /\ \E next \in {seeded_turn(sd)} : sd' = next
    /\ UNCHANGED <<hb, cr, bc, call, fx, sg>>

\* np.vstack(processed_channels), the channels by index
SeededAssemble ==
    /\ sd.pc = "loop"
    /\ sd.done = Len(sd.order)
    /\ sd' = [sd EXCEPT !.pc = "returned"]
    /\ UNCHANGED <<hb, cr, bc, call, fx, sg>>

NextSeeded == SeededChannel \/ SeededAssemble

SpecSeeded == InitSeeded /\ [][NextSeeded]_vars

\* the order of the source: for chan in audio
IndexOrder(n) == [i \in 1..n |-> i]

\* C15 as stated: whatever the order in which the channels are processed,
\* the returned channels are those of processing them in index order from
\* the same seeded source.
C15_OrderIndependent ==
    (sd.pc = "returned") =>
        sd.out = seeded_loop(SeededCall(sd.effect, sd.audio, sd.tape,
                                        IndexOrder(Len(sd.audio.data)))).out

(***************************************************************************)
(* Word specification: an int32 array of values of the int16 range, the    *)
(* branch of _audio2bits_safe that does not scale, is turned into 16-bit   *)
(* words, and the words are turned back into integers as _bits2audio_safe  *)
(* does before it divides by 32768.                                        *)
(***************************************************************************)
\* audio_int of _bits2audio_safe: pad to a multiple of 16, then one clipped
\* signed value per 16-bit group
bits2ints(bits) ==
    LET pad_len == IF Len(bits) % 16 # 0 THEN 16 - (Len(bits) % 16) ELSE 0
        padded == PadZeros(bits, pad_len)
        num_samples == Len(padded) \div 16
    IN  AsList([i \in 1..num_samples |->
            signed_word(SubSeq(padded, 16 * (i - 1) + 1, 16 * i))])

\* the values an array of several words is filled with
EdgeValues == {_int16_min, -1, 0, 1, _int16_max}

InitWord ==
    /\ \/ \E v \in _int16_min.._int16_max :
             bc = [pc |-> "start", dtype |-> "int32", audio |-> <<Sample(v, 1)>>,
                   bits |-> <<>>, out |-> <<>>]
       \/ \E n \in 0..MaxWords : \E vs \in [1..n -> EdgeValues] :
             bc = [pc |-> "start", dtype |-> "int32",
                   audio |-> AsList([i \in 1..n |-> Sample(vs[i], 1)]),
                   bits |-> <<>>, out |-> <<>>]
    /\ hb = Idle
    /\ cr = Idle
    /\ call = Idle
    /\ fx = Idle
    /\ sg = Idle
    /\ sd = Idle

BitsToInts ==
    /\ bc.pc = "bits"
    /\ bc' = [bc EXCEPT !.pc = "ints", !.out = bits2ints(bc.bits)]
    /\ UNCHANGED <<hb, cr, call, fx, sg, sd>>

NextWord == AudioToBits \/ BitsToInts

SpecWord == InitWord /\ [][NextWord]_vars

RECURSIVE Weighted(_, _)
\* the number a word stands for when its k-th bit from the end weighs
\* 2^(k-1): the sum of the weights of the first n bits of word
Weighted(word, n) ==
    IF n = 0 THEN 0
    ELSE word[n] * Pow2(Len(word) - n) + Weighted(word, n - 1)

\* C21: the bits of n samples are 16 * n bits; the i-th group of 16 is the
\* two's-complement word of the i-th integer v, most significant bit first
\* (it weighs v for v >= 0 and v + 65536 for v < 0, its first bit being the
\* sign); and the word-to-integer step gives back every v of
\* [-32768, 32767].
C21_SixteenBitWords ==
    (bc.pc \in {"bits", "ints"}) =>
        /\ Len(bc.bits) = 16 * Len(bc.audio)
        /\ \A i \in 1..Len(bc.audio) :
              LET v == bc.audio[i].num
                  word == SubSeq(bc.bits, 16 * (i - 1) + 1, 16 * i)
              IN  /\ word \in BitSeqs(16)
                  /\ Weighted(word, 16) = IF v < 0 THEN v + 65536 ELSE v
                  /\ word[1] = IF v < 0 THEN 1 ELSE 0
                  /\ bc.pc = "ints" =>
                        /\ Len(bc.out) = Len(bc.audio)
                        /\ bc.out[i] = v

\* -32768 is the word 1000000000000000 and comes back as -32768
C21_Witness ==
    /\ bc.pc = "ints"
    /\ bc.audio = <<Sample(-32768, 1)>>
    /\ bc.bits = <<1, 0, 0, 0, 0, 0, 0, 0, 0, 0, 0, 0, 0, 0, 0, 0>>
    /\ bc.out = <<-32768>>

\* C22 as stated, read on float32 samples (the samples the code scales by
\* 32767): the integer _audio2bits_safe encodes for a sample x is the integer
\* nearest to clamp(x, -1, 1) * 32767: it differs from that product by at
\* most one half.
C22_RoundsToNearest ==
    (bc.pc = "bits" /\ bc.dtype = "float32") =>
        LET c == clip_unit(bc.audio[1])
            q == bits2ints(bc.bits)[1]
        IN  Abs(q * c.den - c.num * 32767) <= c.den \div 2

(***************************************************************************)
(* Stream specification: a bitstream of any length is encoded by the       *)
(* inline encoder of the process methods and by                            *)
(* HammingEncoder._hamming_encode_only; the channel flips any positions of *)
(* the first codeword of the inline-coded stream; the received stream is   *)
(* decoded by the inline decoder of the process methods, truncated to the  *)
(* recorded length, and by HammingDecoder._hamming_decode_only.            *)
(***************************************************************************)
InitStream ==
    /\ \E n \in 0..MaxStreamLen : \E b \in BitSeqs(n) :
          hb = [pc |-> "start", bits |-> b, orig_len |-> 0, coded |-> <<>>,
                encoded |-> <<>>, flips |-> {}, coded_noise |-> <<>>,
                decoded |-> <<>>, decoded_bits |-> <<>>]
    /\ cr = Idle
    /\ bc = Idle
    /\ call = Idle
    /\ fx = Idle
    /\ sg = Idle
    /\ sd = Idle

\* steps 2 and 3 of the loop body of process, and _hamming_encode_only
StreamEncode ==
    /\ hb.pc = "start"
    /\ hb' = [hb EXCEPT !.pc = "coded",
                        !.orig_len = Len(hb.bits),
                        !.coded = hamming_encode_stream(hb.bits),
                        !.encoded = _hamming_encode_only(hb.bits)]
    /\ UNCHANGED <<cr, bc, call, fx, sg, sd>>

\* (coded + noise) % 2, the ones of noise inside the first codeword
StreamChannel ==
    /\ hb.pc = "coded"
    /\ \E F \in SUBSET (1..(IF Len(hb.coded) < 7 THEN Len(hb.coded) ELSE 7)) :
          hb' = [hb EXCEPT !.pc = "received", !.flips = F,
                           !.coded_noise = FlipAt(hb.coded, F)]
    /\ UNCHANGED <<cr, bc, call, fx, sg, sd>>

\* steps 5 and 6 of the loop body of process, and _hamming_decode_only
StreamDecode ==
    /\ hb.pc = "received"
    /\ hb' = [hb EXCEPT !.pc = "decoded",
                        !.decoded = Take(hamming_decode_stream(hb.coded_noise),
                                         hb.orig_len),
                        !.decoded_bits = _hamming_decode_only(hb.coded_noise)]
    /\ UNCHANGED <<cr, bc, call, fx, sg, sd>>

NextStream == StreamEncode \/ StreamChannel \/ StreamDecode

SpecStream == InitStream /\ [][NextStream]_vars

\* ceil(n / 4)
CeilDiv4(n) == (n + 3) \div 4

\* C23 as stated: both stream encoders emit exactly 7 * ceil(n/4) bits for a
\* bitstream of n bits.
C23_CodedLength ==
    (hb.pc = "coded") =>
        /\ Len(hb.coded) = 7 * CeilDiv4(Len(hb.bits))
        /\ Len(hb.encoded) = 7 * CeilDiv4(Len(hb.bits))

\* C24: a bitstream of any length, encoded with zero padding, its coded
\* stream left as it is, decoded group by group and truncated to the recorded
\* length, comes back bit for bit; nothing of the padding is in the result.
C24_StreamRoundTrip ==
    (hb.pc = "decoded" /\ hb.flips = {}) =>
        /\ hb.orig_len = Len(hb.bits)
        /\ Len(hb.decoded) = Len(hb.bits)
        /\ hb.decoded = hb.bits

\* five ones: three zeros of padding are encoded with the fifth bit and are
\* cut off after decoding
C24_Witness ==
    /\ hb.pc = "decoded"
    /\ hb.flips = {}
    /\ hb.bits = <<1, 1, 1, 1, 1>>
    /\ Len(hb.coded_noise) = 14
    /\ hamming_decode_stream(hb.coded_noise) = <<1, 1, 1, 1, 1, 0, 0, 0>>
    /\ hb.decoded = <<1, 1, 1, 1, 1>>

\* C29: every whole 4-bit group of a bitstream is encoded by
\* _hamming_encode_only to the 7 bits _hamming_7_4_encode gives for it, and
\* every 7-bit word of a received stream is decoded by _hamming_decode_only
\* to the 4 bits _hamming_7_4_decode gives for it.
C29_ImplementationsAgree ==
    /\ (hb.pc \in {"coded", "received", "decoded"}) =>
          \A i \in 1..(Len(hb.bits) \div 4) :
             SubSeq(hb.encoded, 7 * (i - 1) + 1, 7 * i)
                = _hamming_7_4_encode(SubSeq(hb.bits, 4 * (i - 1) + 1, 4 * i))
    /\ (hb.pc = "decoded") =>
          /\ Len(hb.decoded_bits) = 4 * (Len(hb.coded_noise) \div 7)
          /\ \A i \in 1..(Len(hb.coded_noise) \div 7) :
                SubSeq(hb.decoded_bits, 4 * (i - 1) + 1, 4 * i)
                   = _hamming_7_4_decode(SubSeq(hb.coded_noise, 7 * (i - 1) + 1, 7 * i))

\* the group 1011 is encoded to 0110011 by both; received as 0100011 (its
\* third bit flipped), it is decoded to 1011 by both
C29_Witness ==
    /\ hb.pc = "decoded"
    /\ hb.bits = <<1, 0, 1, 1>>
    /\ hb.encoded = <<0, 1, 1, 0, 0, 1, 1>>
    /\ hb.coded = hb.encoded
    /\ hb.coded_noise = <<0, 1, 0, 0, 0, 1, 1>>
    /\ hb.decoded_bits = <<1, 0, 1, 1>>
    /\ hb.decoded = hb.decoded_bits

\* the steps channel i of the call entered, in the order it entered them
entered_by(i) ==
    LET own == SelectSeq(call.stages, LAMBDA e : e[1] = i)
    IN  AsList([k \in 1..Len(own) |-> own[k][2]])

\* the order C25 states
CombinedOrder ==
    <<"audio2bits", "hamming_encode", "crc_encode", "inline_noise",
      "crc_check", "hamming_decode", "bits2audio", "truncate">>

\* C25: in a finished call of CombinedChannelCodeEffect.process every
\* channel entered the steps audioToBits, Hamming encode, CRC encode, noise,
\* CRC check, Hamming decode, bitsToAudio, truncate in this order, none twice
\* (a channel that raised stopped at the step that raised), and a channel
\* that ran through entered all eight.  For a 1-D or 2-D buffer the frame of
\* such a channel is its Hamming-coded stream followed by the CRC-32 of that
\* coded stream; the noise vector is as long as the frame, checksum
\* included; the verdict is the CRC check of the received frame as it came,
\* uncorrected; and the channel returned is decoded from the received
\* payload.
C25_StageOrder ==
    (Finished /\ call.effect = "CombinedChannelCodeEffect") =>
        /\ \A k \in 1..Len(call.stages) :
              call.stages[k][1] \in 1..(Len(call.processed_channels) + 1)
        /\ \A i \in 1..(Len(call.processed_channels) + 1) :
              LET names == entered_by(i)
              IN  /\ Len(names) <= 8
                  /\ names = SubSeq(CombinedOrder, 1, Len(names))
                  /\ i <= Len(call.processed_channels) => names = CombinedOrder
        /\ WellFormed(call.arg) =>
              /\ \A i \in 1..Len(call.processed_channels) :
                    LET chan == Channels(call.arg)[i]
                        bits == _audio2bits_safe(chan, call.arg.dtype)
                        coded == hamming_encode_stream(bits)
                        frame == coded \o crc32_bits(coded)
                        received == FlipAt(frame, call.noise[i])
                        after_crc == SubSeq(received, 1, Len(coded))
                        crc_bits == SubSeq(received, Len(coded) + 1, Len(coded) + 32)
                        decoded == Take(hamming_decode_stream(after_crc), Len(bits))
                    IN  /\ Len(frame) = 7 * 4 * Len(chan) + 32
                        /\ call.noise[i] \subseteq 1..Len(frame)
                        /\ call.is_valid[i] = (crc32_bits(after_crc) = crc_bits)
                        /\ call.corrected[i] = corrected_groups(after_crc)
                        /\ call.processed_channels[i]
                              = Take(_bits2audio_safe(decoded), Len(chan))
              /\ call.pc = "returned" /\ call.exc = "none" =>
                    call.draws = 28 * Size(call.arg.shape)
                                    + 32 * Len(call.processed_channels)

\* the one flipped bit is the last bit of the checksum: the frame of the one
\* sample has 28 + 32 bits, the CRC check fails, no codeword is corrected
C25_Witness ==
    /\ call.pc = "returned"
    /\ call.effect = "CombinedChannelCodeEffect"
    /\ call.arg.shape = <<1>>
    /\ call.exc = "none"
    /\ call.noise = <<{60}>>
    /\ call.is_valid = <<FALSE>>
    /\ call.corrected = <<0>>
    /\ call.draws = 60
    /\ entered_by(1) = CombinedOrder

(***************************************************************************)
(* Noisy-call specification: process of the two effects that decode        *)
(* Hamming codewords, on a float32 buffer of one sample, with the default  *)
(* error rate and up to MaxSpreadFlips ones in the noise vector, which can *)
(* fall in different codewords, in one codeword or in the checksum; and    *)
(* with error_rate = 2, which np.random.choice refuses.                    *)
(***************************************************************************)
DecodingEffects == {"HammingCodeEffect", "CombinedChannelCodeEffect"}

\* the 1-D float32 buffer of the one sample -(SampleDen - 1)/SampleDen
OneSample == Array(<<1>>, "float32", <<Sample(-(SampleDen - 1), SampleDen)>>)

InitNoisy ==
    /\ \E e \in DecodingEffects :
          \/ call = [NewCall(e, DefaultRate, OneSample, NoFault)
                        EXCEPT !.budget = MaxSpreadFlips]
          \/ call = NewCall(e, 2 * RateOne, OneSample, NoFault)
    /\ hb = Idle
    /\ cr = Idle
    /\ bc = Idle
    /\ fx = Idle
    /\ sg = Idle
    /\ sd = Idle

SpecNoisy == InitNoisy /\ [][NextProcess]_vars

\* does the noise vector flip at most one bit inside each of the 7-bit
\* codewords of a coded stream of coded_len bits?
OnePerCodeword(noise, coded_len) ==
    \A g \in 1..(coded_len \div 7) :
        Cardinality(noise \cap ((7 * (g - 1) + 1)..(7 * g))) <= 1

\* the channel a call of effect returns for chan when the noise vector is
\* all zeros
unflipped(effect, chan, dtype) ==
    RunStages(Stages(effect), FreshLocals,
              [chan |-> chan, chan_ndim |-> 1, dtype |-> dtype,
               error_rate |-> DefaultRate, flips |-> {},
               fault_stage |-> "none"]).chan_proc

\* C27: a call of HammingCodeEffect.process or
\* CombinedChannelCodeEffect.process that returned without an exception
\* returns, for every channel in whose coded stream the noise flipped at most
\* one bit of each 7-bit codeword (and any bits of the checksum), the channel
\* it returns when nothing is flipped, the quantisation round trip, whatever
\* the CRC verdict.
C27_SingleErrorsCorrected ==
    (/\ call.pc = "returned"
     /\ call.exc = "none"
     /\ call.effect \in DecodingEffects
     /\ WellFormed(call.arg)) =>
        \A i \in 1..Len(Channels(call.arg)) :
            LET chan == Channels(call.arg)[i]
            IN  OnePerCodeword(call.noise[i], 28 * Len(chan)) =>
                   /\ Channels(call.result)[i]
                         = unflipped(call.effect, chan, call.arg.dtype)
                   /\ Channels(call.result)[i]
                         = Take(quantised(chan, call.arg.dtype), Len(chan))

\* bit 3 of the first codeword and bit 3 of the second are flipped: the CRC
\* check fails, two codewords are corrected, the sample comes back
C27_Witness ==
    /\ call.pc = "returned"
    /\ call.exc = "none"
    /\ call.effect = "CombinedChannelCodeEffect"
    /\ call.noise = <<{3, 10}>>
    /\ call.is_valid = <<FALSE>>
    /\ call.corrected = <<2>>
    /\ call.result = Array(<<1>>, "float32",
                           unflipped(call.effect, call.arg.data, "float32"))

(***************************************************************************)
(* Checksum specification: CombinedChannelCodeEffect.process on the        *)
(* one-sample buffer with up to MaxTailFlips ones in the noise vector,     *)
(* anywhere in the frame; and with error_rate = 2.                         *)
(***************************************************************************)
InitTail ==
    /\ \/ call = [NewCall("CombinedChannelCodeEffect", DefaultRate, OneSample, NoFault)
                     EXCEPT !.budget = MaxTailFlips]
       \/ call = NewCall("CombinedChannelCodeEffect", 2 * RateOne, OneSample, NoFault)
    /\ hb = Idle
    /\ cr = Idle
    /\ bc = Idle
    /\ fx = Idle
    /\ sg = Idle
    /\ sd = Idle

SpecTail == InitTail /\ [][NextProcess]_vars

\* the locals of one turn of the loop of effect on chan when it reaches the
\* noise step
framed(effect, chan, dtype) ==
    RunStages(BeforeNoise(effect), FreshLocals,
              [chan |-> chan, chan_ndim |-> 1, dtype |-> dtype,
               error_rate |-> DefaultRate, flips |-> {},
               fault_stage |-> "none"])

\* the locals at the end of that turn, from the locals sent at the noise
\* step, when the noise vector has its ones at flips
turn(effect, sent, chan, dtype, flips) ==
    RunStages(FromNoise(effect), sent,
              [chan |-> chan, chan_ndim |-> 1, dtype |-> dtype,
               error_rate |-> DefaultRate, flips |-> flips,
               fault_stage |-> "none"])

\* the positions of the checksum in the frame of a coded stream of
\* coded_len bits
ChecksumAt(coded_len) == (coded_len + 1)..(coded_len + 32)

\* the ones in the checksum part of a noise vector that turn the checksum
\* sent with coded into the checksum of the payload received, coded with
\* payload_flips inverted
matching(coded, payload_flips) ==
    LET sent == crc32_bits(coded)
        good == crc32_bits(FlipAt(coded, payload_flips))
    IN  {Len(coded) + k : k \in {j \in 1..32 : sent[j] # good[j]}}

\* C28: the channel a call of CombinedChannelCodeEffect.process returns is
\* the one it returns for every other frame with the same bits before the
\* last 32: with the checksum as it was sent, with any one bit of it
\* inverted, with every bit of it inverted, and with the checksum that
\* matches the received payload, for which the verdict is valid.
C28_OutputIgnoresChecksum ==
    (/\ call.pc = "returned"
     /\ call.exc = "none"
     /\ call.effect = "CombinedChannelCodeEffect"
     /\ WellFormed(call.arg)) =>
        \A i \in 1..Len(Channels(call.arg)) :
        \A chan \in {Channels(call.arg)[i]} :
        \A coded \in {hamming_encode_stream(_audio2bits_safe(chan, call.arg.dtype))} :
        \A payload_flips \in {call.noise[i] \cap (1..Len(coded))} :
        \A sent \in {framed(call.effect, chan, call.arg.dtype)} :
        \A valid_one \in {turn(call.effect, sent, chan, call.arg.dtype,
                               payload_flips \cup matching(coded, payload_flips))} :
            /\ Len(sent.stream) = Len(coded) + 32
            /\ valid_one.is_valid
            /\ Channels(call.result)[i] = valid_one.chan_proc
            /\ \A F \in SubsetsUpTo(ChecksumAt(Len(coded)), 1)
                          \cup {ChecksumAt(Len(coded))} :
                  Channels(call.result)[i]
                     = turn(call.effect, sent, chan, call.arg.dtype,
                            payload_flips \cup F).chan_proc

\* bit 3 of the payload is flipped: the verdict is invalid, one codeword is
\* corrected, the call returns; with the checksum that matches the received
\* payload, which differs from the one sent, the verdict would be valid
C28_Witness ==
    /\ call.pc = "returned"
    /\ call.exc = "none"
    /\ call.effect = "CombinedChannelCodeEffect"
    /\ call.budget = MaxTailFlips
    /\ call.noise = <<{3}>>
    /\ call.is_valid = <<FALSE>>
    /\ call.corrected = <<1>>
    /\ matching(hamming_encode_stream(_audio2bits_safe(call.arg.data, "float32")),
                {3}) # {}

(***************************************************************************)
(* Ownership specification: one stage is called with a bit array and the   *)
(* caller then writes into the array the stage returned.  Memory is a      *)
(* sequence of buffers; an array object is a window [buf, start, len] on   *)
(* one of them: np.array, np.concatenate, np.pad, .copy() and arithmetic   *)
(* allocate a buffer, a basic slice a[i:j] is a window on the buffer of a, *)
(* and returning the argument returns the same window.                     *)
(***************************************************************************)
OwnedStages ==
    {"_crc32_encode", "_crc32_check", "_add_noise", "_hamming_7_4_decode",
     "_hamming_decode_only"}

\* the array object covering all of buffer b, which holds n elements
whole(b, n) == [buf |-> b, start |-> 0, len |-> n]

\* the elements of the array object a in the memory heap
elements(heap, a) == SubSeq(heap[a.buf], a.start + 1, a.start + a.len)

\* the arguments tried: short arrays for every stage, their frames for
\* _crc32_check, every 7-bit list for _hamming_7_4_decode
OwnedArgs(stage) ==
    CASE stage = "_crc32_check" ->
            ShortStreams(MaxOwnedLen)
               \cup {_crc32_encode(p) : p \in ShortStreams(MaxOwnedLen)}
      [] stage = "_hamming_7_4_decode" -> BitSeqs(7)
      [] OTHER -> ShortStreams(MaxOwnedLen) \cup BitSeqs(7)

InitOwned ==
    /\ \E stage \in OwnedStages : \E b \in OwnedArgs(stage) :
       \E rate \in {0, DefaultRate} :
          /\ rate = DefaultRate => stage = "_add_noise"
          /\ sg = [pc |-> "call", stage |-> stage, error_rate |-> rate,
                   given |-> b, heap |-> <<b>>, arg |-> whole(1, Len(b)),
                   result |-> whole(1, 0), exc |-> "none"]
    /\ hb = Idle
    /\ cr = Idle
    /\ bc = Idle
    /\ call = Idle
    /\ fx = Idle
    /\ sd = Idle

\* the call of the stage: what it allocates and the array object it returns
StageCall ==
    /\ sg.pc = "call"
    /\ LET bits == elements(sg.heap, sg.arg)
           fresh(v) == [sg EXCEPT !.pc = "returned",
                                  !.heap = Append(@, v),
                                  !.result = whole(Len(sg.heap) + 1, Len(v))]
       IN  CASE sg.stage = "_crc32_encode" ->
                   sg' = fresh(_crc32_encode(bits))
             [] sg.stage = "_crc32_check" ->
                   sg' = IF Len(bits) < crc_length
                         THEN [sg EXCEPT !.pc = "returned", !.result = sg.arg]
                         ELSE [sg EXCEPT !.pc = "returned",
                                  !.result = [buf |-> sg.arg.buf,
                                              start |-> sg.arg.start,
                                              len |-> sg.arg.len - crc_length]]
             [] sg.stage = "_add_noise" ->
                   IF sg.error_rate <= 0
                   THEN sg' = fresh(bits)
                   ELSE \E F \in SubsetsUpTo(1..Len(bits), 1) :
                           sg' = fresh(FlipAt(bits, F))
             [] sg.stage = "_hamming_7_4_decode" ->
                   sg' = IF Len(bits) # 7
                         THEN [sg EXCEPT !.pc = "raised", !.exc = "ValueError"]
                         ELSE fresh(_hamming_7_4_decode(bits))
             [] sg.stage = "_hamming_decode_only" ->
                   sg' = fresh(_hamming_decode_only(bits))
    /\ UNCHANGED <<hb, cr, bc, call, fx, sd>>

\* the caller's result[0] = 1 - result[0]
WriteResult ==
    /\ sg.pc = "returned"
    /\ sg.result.len > 0
    /\ LET b == sg.result.buf
           k == sg.result.start + 1
       IN  sg' = [sg EXCEPT !.pc = "written",
                            !.heap[b][k] = 1 - sg.heap[b][k]]
    /\ UNCHANGED <<hb, cr, bc, call, fx, sd>>

NextOwned == StageCall \/ WriteResult

SpecOwned == InitOwned /\ [][NextOwned]_vars

\* C26 as stated: the array a stage returned lies in another buffer than the
\* array it was given, and the array given still holds the bits it held
\* before the call, also after the caller wrote into the result.
C26_StagesOwnTheirArrays ==
    (sg.pc \in {"returned", "written"}) =>
        /\ sg.result.buf # sg.arg.buf
        /\ elements(sg.heap, sg.arg) = sg.given

(***************************************************************************)
(* FSKEffect (src/effects/fsk.py): the parameters freq0, freq1, bit_rate   *)
(* and carrier_amp, written by __init__ and by set_params only.  A Python  *)
(* value is [type, tenths, nan]: its type name and, for int, float and     *)
(* bool, ten times its number (True is 1, False is 0); nan marks the float *)
(* nan, for which every comparison is false.                               *)
(***************************************************************************)
PyInt(n) == [type |-> "int", tenths |-> 10 * n, nan |-> FALSE]
PyFloat(t) == [type |-> "float", tenths |-> t, nan |-> FALSE]
PyBool(b) == [type |-> "bool", tenths |-> IF b THEN 10 ELSE 0, nan |-> FALSE]
NaN == [type |-> "float", tenths |-> 0, nan |-> TRUE]
Str == [type |-> "str", tenths |-> 0, nan |-> FALSE]
None == [type |-> "NoneType", tenths |-> 0, nan |-> FALSE]

\* isinstance(value, (int, float)); bool is a subclass of int
is_int_or_float(value) == value.type \in {"int", "float", "bool"}

\* lo <= value <= hi, lo and hi in tenths
between(lo, value, hi) == ~value.nan /\ lo <= value.tenths /\ value.tenths <= hi

valid_keys == {"freq0", "freq1", "bit_rate", "carrier_amp"}

set_any_number(key, value) == key \in valid_keys /\ is_int_or_float(value)

\* does one turn of the loop of set_params call setattr(self, key, value)?
sets(key, value) ==
    /\ key \in valid_keys
    /\ is_int_or_float(value)
    /\ \/ key \in {"freq0", "freq1"} /\ between(200, value, 200000)
       \/ key = "bit_rate" /\ between(100, value, 10000)
       \/ key = "carrier_amp" /\ between(1, value, 10)

RECURSIVE set_params(_, _)
\* set_params(**kwargs): the loop over kwargs.items(), in the order given
set_params(self, kwargs) ==
    IF kwargs = <<>> THEN self
    ELSE LET key == Head(kwargs)[1]
             value == Head(kwargs)[2]
         IN  set_params(IF sets(key, value) THEN [self EXCEPT ![key] = value]
                        ELSE self,
                        Tail(kwargs))

\* FSKEffect(): the four parameters after __init__
FSKEffect ==
    [freq0 |-> PyInt(1000), freq1 |-> PyInt(2000), bit_rate |-> PyInt(100),
     carrier_amp |-> PyFloat(5)]

\* the keys tried: the four parameters, a name that is no attribute and the
\* name of the attribute set_params does not manage
Keys == valid_keys \cup {"freq2", "_original_wave"}

\* the values tried alone: the ends of each range, their neighbours outside,
\* values inside, and values that are no int or float
Values ==
    {PyInt(0), PyInt(1), PyInt(2), PyInt(9), PyInt(10), PyInt(19), PyInt(20), PyInt(1000),
     PyInt(1001), PyInt(20000), PyInt(20001), PyInt(-20),
     PyFloat(1), PyFloat(5), PyFloat(10), PyFloat(11), PyFloat(99), PyFloat(199),
     PyFloat(10001), PyFloat(200001),
     PyBool(TRUE), PyBool(FALSE), NaN, Str, None}

\* the values tried in calls with two keys
PairValues == {PyInt(20), PyInt(20001), Str}

\* the keyword arguments tried: none, one, or two with different keys
Kwargs ==
    {<<>>}
    \cup {<<<<k, v>>>> : k \in Keys, v \in Values}
    \cup {kw \in {<<<<k1, v1>>, <<k2, v2>>>> :
                       k1 \in Keys, k2 \in Keys, v1 \in PairValues, v2 \in PairValues} :
             kw[1][1] # kw[2][1]}

InitParams ==
    /\ fx = [pc |-> "constructed", self |-> FSKEffect, calls |-> 0,
             before |-> FSKEffect, kwargs |-> <<>>]
    /\ hb = Idle
    /\ cr = Idle
    /\ bc = Idle
    /\ call = Idle
    /\ sg = Idle
    /\ sd = Idle

SetParams ==
    /\ fx.calls < MaxCalls
    /\ \E kwargs \in Kwargs :
          fx' = [fx EXCEPT !.pc = "set", !.calls = @ + 1, !.before = fx.self,
                           !.kwargs = kwargs,
                           !.self = set_params(fx.self, kwargs)]
    /\ UNCHANGED <<hb, cr, bc, call, sg, sd>>

NextParams == SetParams

SpecParams == InitParams /\ [][NextParams]_vars

\* is value a number of [lo, hi] (in tenths)?
NumberIn(value, lo, hi) ==
    /\ value.type \in {"int", "float", "bool"}
    /\ ~value.nan
    /\ lo <= value.tenths /\ value.tenths <= hi

\* is the pair <<key, value>> one that names parameter p with a number of
\* the range of p?
Proper(p, pair) ==
    /\ pair[1] = p
    /\ CASE p \in {"freq0", "freq1"} -> NumberIn(pair[2], 200, 200000)
         [] p = "bit_rate" -> NumberIn(pair[2], 100, 10000)
         [] p = "carrier_amp" -> NumberIn(pair[2], 1, 10)

\* C30: after construction and after every call of set_params, freq0 and
\* freq1 are numbers of [20, 20000], bit_rate of [10, 1000] and carrier_amp
\* of [0.1, 1.0]; a parameter for which the last call carried no key naming
\* it with a number of its range (the key was unknown, the value no int or
\* float, or out of range) is what it was before the call, and a parameter
\* that changed holds the value the call carried for it.
C30_ParamsStayInRange ==
    /\ NumberIn(fx.self.freq0, 200, 200000)
    /\ NumberIn(fx.self.freq1, 200, 200000)
    /\ NumberIn(fx.self.bit_rate, 100, 10000)
    /\ NumberIn(fx.self.carrier_amp, 1, 10)
    /\ DOMAIN fx.self = valid_keys
    /\ \A p \in valid_keys :
          LET given == {k \in 1..Len(fx.kwargs) : Proper(p, fx.kwargs[k])}
          IN  IF given = {} THEN fx.self[p] = fx.before[p]
              ELSE \E k \in given : fx.self[p] = fx.kwargs[k][2]

\* the second call carries freq0 = 20001, out of range, and bit_rate = 20:
\* freq0 stays 1000.1, what the first call made it, bit_rate becomes 20
C30_Witness ==
    /\ fx.pc = "set"
    /\ fx.calls = 2
    /\ fx.kwargs = <<<<"freq0", PyInt(20001)>>, <<"bit_rate", PyInt(20)>>>>
    /\ fx.before.freq0 = PyFloat(10001)
    /\ fx.self.freq0 = PyFloat(10001)
    /\ fx.self.bit_rate = PyInt(20)
    /\ fx.self.freq1 = PyInt(2000)

====
